---- MODULE Spec2Model ----
(***************************************************************************)
(* The Container-Maker FastAPI demo (demo-fullstack-ai/app.py): one        *)
(* application object, two GET handlers that format three values of the    *)
(* process (sys.version, platform.platform(), os.environ['HOSTNAME']) into *)
(* an HTML page and a JSON record.                                         *)
(*                                                                         *)
(* Python str values are TLA+ strings (Len, SubSeq and \o act on them      *)
(* character by character).  The module is ASCII: a non-ASCII character of *)
(* a program literal is written as its Python escape ("\\U0001f680"), and  *)
(* the lone surrogate that os.environ yields for an undecodable byte is    *)
(* written as the character Surrogate.                                     *)
(***************************************************************************)
EXTENDS Integers, Sequences, FiniteSets

VARIABLES
    environ,        \* os.environ restricted to HOSTNAME: a function on {} or {"HOSTNAME"}
    sys_version,    \* sys.version of the interpreter running the process
    platform_str,   \* the value platform.platform() returns in this process
    req             \* the requests of the server, by connection slot

vars == <<environ, sys_version, platform_str, req>>

---------------------------------------------------------------------------
(* Bounds of the model *)

\* connection slots: the number of requests that can be in flight together
MaxReq == 2

\* the longest HOSTNAME value drawn (longer than TruncLen)
MaxHostLen == 14

---------------------------------------------------------------------------
(* Constant of the program *)

\* the stop index of the slice [:12] in both handlers
TruncLen == 12

---------------------------------------------------------------------------
(* Input values *)

\* '\udcff', what os.environ holds for the byte 0xFF (surrogateescape): a
\* character that str.encode("utf-8") refuses.  No literal of the program
\* holds the stand-in character.
Surrogate == "~"

\* a markup character
Markup == "<"

\* the host name of the spec's scenario, HOSTNAME=abcdefghijklmnop
Base == "abcdefghijklmnop"

\* the first n characters of the host name, repeated if n is larger
Plain(n) == SubSeq(Base \o Base, 1, n)

\* the HOSTNAME values of the sweep: every length 0..MaxHostLen, plain and
\* with a markup or an undecodable character first or last
HostNames ==
    {Plain(n) : n \in 0..MaxHostLen}
    \cup {Plain(n - 1) \o c : n \in 1..MaxHostLen, c \in {Markup, Surrogate}}
    \cup {c \o Plain(n - 1) : n \in 1..MaxHostLen, c \in {Markup, Surrogate}}

\* the HOSTNAME values the environment is set to while the server runs:
\* empty, longer than TruncLen, and undecodable
EnvHosts == {"", Plain(MaxHostLen), Plain(TruncLen - 1) \o Surrogate}

\* os.environ without HOSTNAME
EmptyEnv == [k \in {} |-> ""]

\* os.environ with HOSTNAME=h
EnvOf(h) == [k \in {"HOSTNAME"} |-> h]

\* (sys.version, platform.platform()) of two real interpreters: a version
\* string with a line break in it, and one of a Windows build
Interpreters ==
    { [version  |-> "3.8.10 (default, Nov 22 2023, 10:22:35) \n[GCC 9.4.0]",
       platform |-> "Linux-5.4.0-169-generic-x86_64-with-glibc2.29"],
      [version  |-> "3.12.1 (tags/v3.12.1:2305ca5, Dec  7 2023, 22:03:25) [MSC v.1937 64 bit (AMD64)]",
       platform |-> "Windows-10-10.0.19045-SP0"] }

\* the request paths of the sweep
Paths ==
    { "/", "/api/info", "/openapi.json", "/docs", "/docs/oauth2-redirect", "/redoc",
      "/api/info/", "/api/info//", "/docs/", "//", "/api", "/api/inf", "/API/INFO",
      "/index.html", "/favicon.ico" }

\* the request paths of the concurrent server: the two routes of the handlers
ServedPaths == {"/", "/api/info"}

---------------------------------------------------------------------------
(* Python built-ins the handlers use *)

\* os.environ.get(key, '') in place of get(key, default): a lost default
GetEmptyDefault(env, key, default) == IF key \in DOMAIN env THEN env[key] ELSE ""

\* os.environ.get(key) or default: the default also replaces an empty value
GetOrDefault(env, key, default) ==
    IF key \in DOMAIN env /\ env[key] # "" THEN env[key] ELSE default

\* os.environ.get(key, default)
Get(env, key, default) == IF key \in DOMAIN env THEN env[key] ELSE default

\* s[:stop] for stop >= 0
Slice(s, stop) == SubSeq(s, 1, IF Len(s) < stop THEN Len(s) ELSE stop)

CharAt(s, i) == SubSeq(s, i, i)

Min(S) == CHOOSE x \in S : \A y \in S : x <= y

Max(S) == CHOOSE x \in S : \A y \in S : x >= y

\* str.isspace() of one character, for the whitespace the version strings hold
IsSpace(c) == c \in {" ", "\t", "\n", "\r", "\f"}

\* the indexes of s at which a maximal run of non-whitespace starts
Starts(s) ==
    {i \in 1..Len(s) : ~IsSpace(CharAt(s, i)) /\ (i = 1 \/ IsSpace(CharAt(s, i - 1)))}

\* the last index of the run of non-whitespace that starts at i
RunEnd(s, i) ==
    Min({j \in i..Len(s) : j = Len(s) \/ IsSpace(CharAt(s, j + 1))})

\* s.split(): the maximal runs of non-whitespace, in order
Split(s) ==
    LET S == Starts(s)
    IN  [n \in 1..Cardinality(S) |->
            LET i == CHOOSE x \in S : Cardinality({y \in S : y < x}) = n - 1
            IN  SubSeq(s, i, RunEnd(s, i))]

\* a handler's outcome: a returned value or a raised exception
Returned(v) == [raised |-> FALSE, value |-> v]

Raised(e) == [raised |-> TRUE, value |-> e]

---------------------------------------------------------------------------
(* The handlers *)

\* the literal of info's "message"
Message == "Hello from Container-Maker! \\U0001f389"

HtmlHead ==
    "\n"
    \o "    <!DOCTYPE html>\n"
    \o "    <html>\n"
    \o "    <head>\n"
    \o "        <title>Container-Maker Demo</title>\n"
    \o "        <style>\n"
    \o "            body { \n"
    \o "                font-family: -apple-system, BlinkMacSystemFont, 'Segoe UI', Roboto, sans-serif;\n"
    \o "                background: linear-gradient(135deg, #667eea 0%, #764ba2 100%);\n"
    \o "                min-height: 100vh;\n"
    \o "                display: flex;\n"
    \o "                align-items: center;\n"
    \o "                justify-content: center;\n"
    \o "                margin: 0;\n"
    \o "            }\n"
    \o "            .card {\n"
    \o "                background: white;\n"
    \o "                border-radius: 20px;\n"
    \o "                padding: 40px;\n"
    \o "                box-shadow: 0 20px 60px rgba(0,0,0,0.3);\n"
    \o "                max-width: 600px;\n"
    \o "                text-align: center;\n"
    \o "            }\n"
    \o "            h1 { color: #667eea; margin-bottom: 10px; }\n"
    \o "            .emoji { font-size: 48px; }\n"
    \o "            .info { background: #f5f5f5; padding: 15px; border-radius: 10px; margin: 20px 0; text-align: left; }\n"
    \o "            .success { color: #22c55e; font-weight: bold; }\n"
    \o "        </style>\n"
    \o "    </head>\n"
    \o "    <body>\n"
    \o "        <div class=\"card\">\n"
    \o "            <div class=\"emoji\">\\U0001f680</div>\n"
    \o "            <h1>Container-Maker Demo</h1>\n"
    \o "            <p class=\"success\">\\u2705 Running inside container!</p>\n"
    \o "            <div class=\"info\">\n"
    \o "                <strong>Environment Info:</strong><br>\n"
    \o "                Python: "

HtmlPlatformLabel ==
    "<br>\n"
    \o "                Platform: "

HtmlContainerLabel ==
    "<br>\n"
    \o "                Container: "

HtmlTail ==
    "\n"
    \o "            </div>\n"
    \o "            <p>This FastAPI server was started with <code>cm run</code></p>\n"
    \o "        </div>\n"
    \o "    </body>\n"
    \o "    </html>\n"
    \o "    "


\* root() with sys.version in place of sys.version.split()[0]
rootFullVersion ==
    Returned(HtmlHead \o sys_version
             \o HtmlPlatformLabel \o platform_str
             \o HtmlContainerLabel
             \o Slice(Get(environ, "HOSTNAME", "unknown"), TruncLen)
             \o HtmlTail)

\* root(), app.py:15-60: the page, or the IndexError of split()[0]
root ==
    LET tokens == Split(sys_version)
    IN  IF tokens = << >> THEN Raised("IndexError")
        ELSE Returned(HtmlHead \o tokens[1]
                      \o HtmlPlatformLabel \o platform_str
                      \o HtmlContainerLabel
                      \o Slice(Get(environ, "HOSTNAME", "unknown"), TruncLen)
                      \o HtmlTail)

\* info(), app.py:63-70
info ==
    Returned([status         |-> "running",
              python_version |-> sys_version,
              platform       |-> platform_str,
              container_id   |-> Slice(Get(environ, "HOSTNAME", "unknown"), TruncLen),
              message        |-> Message])

---------------------------------------------------------------------------
(* The framework under the application object: responses and routing *)

Response(status, media, content) ==
    [status_code |-> status, media_type |-> media, content |-> content, location |-> ""]

\* str.encode("utf-8") succeeds: no lone surrogate in s
Encodable(s) == \A t \in {s} : \A i \in 1..Len(t) : CharAt(t, i) # Surrogate

\* the server's answer to an exception a handler or a response raises
InternalServerError == Response(500, "text/plain", "Internal Server Error")

\* the framework's answer to a path no route matches
NotFound == Response(404, "application/json", [detail |-> "Not Found"])

\* RedirectResponse(url): status 307, the target in the Location header
RedirectResponse(url) ==
    [status_code |-> 307, media_type |-> "", content |-> "", location |-> url]

\* HTMLResponse(content): the body is content.encode("utf-8")
HTMLResponse(content) ==
    IF Encodable(content) THEN Response(200, "text/html", content)
    ELSE InternalServerError

\* JSONResponse(content): the body is json.dumps(content, ensure_ascii=False).encode("utf-8")
JSONResponse(content) ==
    IF \A k \in DOMAIN content : Encodable(content[k])
    THEN Response(200, "application/json", content)
    ELSE InternalServerError

\* FastAPI(..., openapi_url=None): no documentation routes
NoDocsRoutes == << >>

\* the routes FastAPI(title=...) adds by default: the schema and its two viewers
DocsRoutes ==
    << [path |-> "/openapi.json",         endpoint |-> "openapi"],
       [path |-> "/docs",                 endpoint |-> "swagger_ui_html"],
       [path |-> "/docs/oauth2-redirect", endpoint |-> "swagger_ui_redirect"],
       [path |-> "/redoc",                endpoint |-> "redoc_html"] >>

\* the routes the two @app.get decorators add
AppRoutes ==
    << [path |-> "/",         endpoint |-> "root"],
       [path |-> "/api/info", endpoint |-> "info"] >>

\* app.routes, in registration order
Routes == DocsRoutes \o AppRoutes

\* the title given to FastAPI(...)
Title == "Container-Maker Demo"

\* the response of a route's endpoint; the schema and the viewer pages are
\* cut down to their title
Call(endpoint) ==
    CASE endpoint = "root" ->
            IF root.raised THEN InternalServerError ELSE HTMLResponse(root.value)
      [] endpoint = "info" ->
            IF info.raised THEN InternalServerError ELSE JSONResponse(info.value)
      [] endpoint = "openapi" ->
            JSONResponse([openapi |-> "3.1.0", title |-> Title, version |-> "0.1.0"])
      [] endpoint = "swagger_ui_html" ->
            HTMLResponse("<title>" \o Title \o " - Swagger UI</title>")
      [] endpoint = "swagger_ui_redirect" ->
            HTMLResponse("<title>Swagger UI: OAuth2 Redirect</title>")
      [] endpoint = "redoc_html" ->
            HTMLResponse("<title>" \o Title \o " - ReDoc</title>")

\* path.rstrip("/")
RStrip(path) ==
    SubSeq(path, 1, Max({0} \cup {i \in 1..Len(path) : CharAt(path, i) # "/"}))

\* the indexes of the routes whose path matches
Matching(path) == {i \in 1..Len(Routes) : Routes[i].path = path}

\* the path the router tries when none matches (redirect_slashes)
SlashVariant(path) ==
    IF Len(path) > 0 /\ CharAt(path, Len(path)) = "/" THEN RStrip(path) ELSE path \o "/"

\* the router: the first matching route, else the slash redirect, else 404
Dispatch(path) ==
    IF Matching(path) # {} THEN Call(Routes[Min(Matching(path))].endpoint)
    ELSE IF path # "/" /\ Matching(SlashVariant(path)) # {}
         THEN RedirectResponse(SlashVariant(path))
    ELSE NotFound

---------------------------------------------------------------------------
(* The server *)

Slots == 1..MaxReq

Idle == [st |-> "idle"]

Pending(p) == [st |-> "pending", path |-> p]

\* a GET for path p is received on slot r
Arrive(r, p) ==
    /\ req[r].st = "idle"
    /\ req' = [req EXCEPT ![r] = Pending(p)]
    /\ UNCHANGED <<environ, sys_version, platform_str>>

\* Handle with a module-level cache: the first response of a route is reused
HandleCached(r) ==
    /\ req[r].st = "pending"
    /\ LET hits == {o \in Slots \ {r} : req[o].st = "done" /\ req[o].path = req[r].path}
       IN  req' = [req EXCEPT ![r] =
                     [st         |-> "done",
                      path       |-> req[r].path,
                      responses  |-> IF hits # {}
                                     THEN req[CHOOSE o \in hits : TRUE].responses
                                     ELSE <<Dispatch(req[r].path)>>,
                      seen       |-> environ,
                      overlapped |-> \E o \in Slots \ {r} : req[o].st = "pending"]]
    /\ UNCHANGED <<environ, sys_version, platform_str>>

\* Handle with a shared resource that is busy while another request is in flight
HandleLocked(r) ==
    /\ req[r].st = "pending"
    /\ req' = [req EXCEPT ![r] =
                 [st         |-> "done",
                  path       |-> req[r].path,
                  responses  |-> IF \E o \in Slots \ {r} : req[o].st = "pending"
                                 THEN <<Response(503, "text/plain", "Service Unavailable")>>
                                 ELSE <<Dispatch(req[r].path)>>,
                  seen       |-> environ,
                  overlapped |-> \E o \in Slots \ {r} : req[o].st = "pending"]]
    /\ UNCHANGED <<environ, sys_version, platform_str>>

\* Handle with os.environ.setdefault('HOSTNAME', 'unknown') in place of get
HandleSetdefault(r) ==
    /\ req[r].st = "pending"
    /\ req' = [req EXCEPT ![r] =
                 [st         |-> "done",
                  path       |-> req[r].path,
                  responses  |-> <<Dispatch(req[r].path)>>,
                  seen       |-> environ,
                  overlapped |-> \E o \in Slots \ {r} : req[o].st = "pending"]]
    /\ environ' = IF "HOSTNAME" \in DOMAIN environ THEN environ ELSE EnvOf("unknown")
    /\ UNCHANGED <<sys_version, platform_str>>

\* the event loop runs the request of slot r: routing, the handler and the
\* response in one step (the handlers hold no await).  seen and overlapped
\* record the environment the step ran under and whether another request
\* was in flight.
Handle(r) ==
    /\ req[r].st = "pending"
    /\ req' = [req EXCEPT ![r] =
                 [st         |-> "done",
                  path       |-> req[r].path,
                  responses  |-> <<Dispatch(req[r].path)>>,
                  seen       |-> environ,
                  overlapped |-> \E o \in Slots \ {r} : req[o].st = "pending"]]
    /\ UNCHANGED <<environ, sys_version, platform_str>>

\* the client of slot r has read its response; the slot is free again
Close(r) ==
    /\ req[r].st = "done"
    /\ req' = [req EXCEPT ![r] = Idle]
    /\ UNCHANGED <<environ, sys_version, platform_str>>

\* the embedding process sets HOSTNAME
Setenv(h) ==
    /\ environ' = EnvOf(h)
    /\ UNCHANGED <<sys_version, platform_str, req>>

\* the embedding process removes HOSTNAME
Unsetenv ==
    /\ environ' = EmptyEnv
    /\ UNCHANGED <<sys_version, platform_str, req>>

\* the process after start-up: no request yet
Started(hosts) ==
    /\ environ \in {EmptyEnv} \cup {EnvOf(h) : h \in hosts}
    /\ \E i \in Interpreters : sys_version = i.version /\ platform_str = i.platform
    /\ req = [r \in Slots |-> Idle]

Init == Started(EnvHosts)

Next ==
    \/ \E r \in Slots, p \in ServedPaths : Arrive(r, p)
    \/ \E r \in Slots : Handle(r)
    \/ \E r \in Slots : Close(r)
    \/ \E h \in EnvHosts : Setenv(h)
    \/ Unsetenv

\* the server under concurrent requests and a changing environment
Spec == Init /\ [][Next]_vars

InitSweep == Started(HostNames)

NextSweep ==
    \/ \E p \in Paths : Arrive(1, p)
    \/ Handle(1)
    \/ Close(1)

\* one client, every HOSTNAME value and every path of the sweep
SpecSweep == InitSweep /\ [][NextSweep]_vars

---------------------------------------------------------------------------
(* What the claims speak of, stated apart from the operators above *)

\* t occurs in s (k counts the characters of s after the occurrence)
Contains(s, t) ==
    \E k \in 0..(Len(s) - Len(t)) : SubSeq(s, Len(s) - k - Len(t) + 1, Len(s) - k) = t

IsPrefix(t, s) == Len(t) <= Len(s) /\ SubSeq(s, 1, Len(t)) = t

White(c) == c = " " \/ c = "\t" \/ c = "\n" \/ c = "\r" \/ c = "\f"

\* t is the first whitespace-delimited token of s
IsFirstToken(t, s) ==
    /\ Len(t) > 0
    /\ \A i \in 1..Len(t) : ~White(CharAt(t, i))
    /\ \E k \in 0..(Len(s) - Len(t)) :
          /\ \A j \in 1..k : White(CharAt(s, j))
          /\ SubSeq(s, k + 1, k + Len(t)) = t
          /\ (k + Len(t) = Len(s) \/ White(CharAt(s, k + Len(t) + 1)))

Answered(r) == req[r].st = "done"

\* the response slot r received
Resp(r) == req[r].responses[1]

IsRoot(r) == Answered(r) /\ req[r].path = "/"

IsInfo(r) == Answered(r) /\ req[r].path = "/api/info"

Ok(r) == Len(req[r].responses) = 1 /\ Resp(r).status_code = 200

HostSet(r) == "HOSTNAME" \in DOMAIN req[r].seen

\* the HOSTNAME value slot r was handled under
HostOf(r) == req[r].seen["HOSTNAME"]

\* the container identifier the spec states for an environment
WantId(env) ==
    IF "HOSTNAME" \notin DOMAIN env THEN "unknown"
    ELSE IF Len(env["HOSTNAME"]) <= 12 THEN env["HOSTNAME"]
    ELSE SubSeq(env["HOSTNAME"], 1, 12)

\* the response of slot r is a page, or a record, that reports identifier id
Reports(r, id) ==
    /\ Ok(r)
    /\ IsRoot(r) =>
          /\ Resp(r).media_type = "text/html"
          /\ Contains(Resp(r).content, "Container: " \o id \o "\n")
    /\ IsInfo(r) =>
          /\ Resp(r).media_type = "application/json"
          /\ Resp(r).content.container_id = id

SameResponse(a, b) ==
    /\ a.status_code = b.status_code
    /\ a.media_type = b.media_type
    /\ a.location = b.location
    /\ a.content = b.content

\* C1: for every set HOSTNAME value both handlers report that value when it
\* has at most 12 characters and its first 12 characters when it is longer.
C1_Truncation ==
    \A r \in Slots :
        (IsRoot(r) \/ IsInfo(r)) /\ HostSet(r) =>
            Reports(r, IF Len(HostOf(r)) <= 12 THEN HostOf(r) ELSE SubSeq(HostOf(r), 1, 12))

\* C2: a request handled while HOSTNAME is unset is answered with status 200
\* and reports the literal "unknown", on both routes.
C2_UnsetIsUnknown ==
    \A r \in Slots :
        (IsRoot(r) \/ IsInfo(r)) /\ ~HostSet(r) => Reports(r, "unknown")

C2_Witness ==
    \E r1, r2 \in Slots :
        /\ IsRoot(r1) /\ ~HostSet(r1) /\ Reports(r1, "unknown")
        /\ IsInfo(r2) /\ ~HostSet(r2) /\ Reports(r2, "unknown")

DocPaths == {"/openapi.json", "/docs", "/docs/oauth2-redirect", "/redoc"}

\* p is route followed by one or more slashes
SlashesAfter(p, route) ==
    /\ Len(p) > Len(route)
    /\ SubSeq(p, 1, Len(route)) = route
    /\ \A i \in (Len(route) + 1)..Len(p) : CharAt(p, i) = "/"

C4_InfoAlwaysOk ==
    \A r \in Slots :
        IsInfo(r) =>
            /\ Ok(r)
            /\ Resp(r).media_type = "application/json"
            /\ DOMAIN Resp(r).content =
                  {"status", "python_version", "platform", "container_id", "message"}
            /\ Resp(r).content.status = "running"
            /\ Resp(r).content.message = "Hello from Container-Maker! \\U0001f389"

\* C5: GET / is always answered 200 with an HTML body that holds the marker
\* "Container-Maker Demo" and the three values verbatim, whatever HOSTNAME is.
C5_RootAlwaysOk ==
    \A r \in Slots :
        IsRoot(r) =>
            /\ Ok(r)
            /\ Resp(r).media_type = "text/html"
            /\ Contains(Resp(r).content, "Container-Maker Demo")
            /\ Contains(Resp(r).content, "Platform: " \o platform_str \o "<br>")
            /\ Contains(Resp(r).content, "Container: " \o WantId(req[r].seen) \o "\n")
            /\ \E n \in 1..Len(sys_version) :
                  /\ IsFirstToken(SubSeq(sys_version, 1, n), sys_version)
                  /\ Contains(Resp(r).content,
                              "Python: " \o SubSeq(sys_version, 1, n) \o "<br>")

\* C6: the identifier a response reports is derived from the HOSTNAME value
\* in effect when its request was handled, never from an earlier one.
C6_FreshEnvironment ==
    \A r \in Slots :
        (IsRoot(r) \/ IsInfo(r)) /\ Ok(r) => Reports(r, WantId(req[r].seen))

C6_Witness ==
    \E r1, r2 \in Slots :
        /\ req[r1].st = "done" /\ req[r2].st = "done"
        /\ req[r1].path = req[r2].path
        /\ req[r1].path \in {"/", "/api/info"}
        /\ req[r1].seen # req[r2].seen
        /\ WantId(req[r1].seen) # WantId(req[r2].seen)
        /\ req[r2].seen = environ
        /\ Reports(r1, WantId(req[r1].seen))
        /\ Reports(r2, WantId(req[r2].seen))

\* C7: every answered request has exactly one response, and it is the
\* response of its route under its environment whatever else was in flight.
C7_Interleaving ==
    /\ \A r \in Slots : Answered(r) => Len(req[r].responses) = 1
    /\ \A r1, r2 \in Slots :
          /\ Answered(r1) /\ Answered(r2)
          /\ req[r1].path = req[r2].path
          /\ req[r1].seen = req[r2].seen
          => SameResponse(Resp(r1), Resp(r2))

C7_Witness ==
    \E r1, r2 \in Slots :
        /\ IsRoot(r1) /\ IsRoot(r2)
        /\ req[r1].seen = req[r2].seen
        /\ req[r1].overlapped /\ ~req[r2].overlapped
        /\ Ok(r1) /\ SameResponse(Resp(r1), Resp(r2))

\* C8: the page shows the first whitespace-delimited token of sys.version,
\* the record holds sys.version whole, so the page's value is a prefix of
\* the record's, and both hold the same platform string.
C8_VersionAndPlatform ==
    \A r1, r2 \in Slots :
        IsRoot(r1) /\ Ok(r1) /\ IsInfo(r2) /\ Ok(r2) =>
            /\ Resp(r2).content.python_version = sys_version
            /\ Resp(r2).content.platform = platform_str
            /\ Contains(Resp(r1).content,
                        "Platform: " \o Resp(r2).content.platform \o "<br>")
            /\ \E n \in 1..Len(sys_version) :
                  LET t == SubSeq(sys_version, 1, n)
                  IN  /\ IsFirstToken(t, sys_version)
                      /\ IsPrefix(t, Resp(r2).content.python_version)
                      /\ Contains(Resp(r1).content, "Python: " \o t \o "<br>")

C8_Witness ==
    \E r1, r2 \in Slots : IsRoot(r1) /\ Ok(r1) /\ IsInfo(r2) /\ Ok(r2)

\* C9: with HOSTNAME set to the empty string both handlers report the empty
\* identifier, not "unknown".
C9_EmptyIsKept ==
    \A r \in Slots :
        (IsRoot(r) \/ IsInfo(r)) /\ HostSet(r) /\ HostOf(r) = "" =>
            /\ Reports(r, "")
            /\ IsInfo(r) =>
                  /\ Len(Resp(r).content.container_id) = 0
                  /\ Resp(r).content.container_id # "unknown"

C9_Witness ==
    \E r1, r2 \in Slots :
        /\ IsRoot(r1) /\ HostSet(r1) /\ HostOf(r1) = "" /\ Reports(r1, "")
        /\ IsInfo(r2) /\ HostSet(r2) /\ HostOf(r2) = "" /\ Reports(r2, "")

\* a step of the server on a request: received, answered or delivered
Serving == req' # req

\* C10: answering a request leaves the process environment as it was; two
\* requests of one route under one environment get identical responses, and
\* the two routes report the same identifier.
C10_NoEffect ==
    /\ [][Serving =>
            /\ environ' = environ
            /\ sys_version' = sys_version
            /\ platform_str' = platform_str
            /\ \A o \in Slots : req[o].st = "done" /\ req'[o].st = "done" => req'[o] = req[o]]_vars
    /\ [](\A r1, r2 \in Slots :
            Answered(r1) /\ Answered(r2) /\ req[r1].seen = req[r2].seen =>
                /\ req[r1].path = req[r2].path => SameResponse(Resp(r1), Resp(r2))
                /\ IsRoot(r1) /\ Ok(r1) /\ IsInfo(r2) /\ Ok(r2) =>
                      Reports(r1, Resp(r2).content.container_id))

C10_Witness ==
    \E r1, r2 \in Slots :
        /\ IsRoot(r1) /\ Ok(r1) /\ IsInfo(r2) /\ Ok(r2)
        /\ req[r1].seen = req[r2].seen
        /\ req[r1].seen = environ
        /\ Reports(r1, Resp(r2).content.container_id)

====
